---- MODULE Spec2Model ----
(***************************************************************************)
(* A model of the training core of AdversarialAttacks_SMILES2024:          *)
(*   - EarlyStopper                       (src/training/train.py)          *)
(*   - Trainer.train_model / DiscTrainer.train_model  (train.py)           *)
(*   - the hyper-parameter search adapter (src/utils.py)                   *)
(* Three specifications share the module: SpecES drives an EarlyStopper    *)
(* with arbitrary losses, SpecTrain runs train_model step by step, SpecOpt *)
(* applies the recursive search-space functions to bounded trees.          *)
(***************************************************************************)
EXTENDS Integers, Sequences, FiniteSets, TLC

VARIABLES
    \* ---- EarlyStopper driven on its own (SpecES)
    stopper,        \* the EarlyStopper object: patience, min_delta, counter, min_validation_loss
    hist,           \* the validation losses fed to early_stop so far, in call order
    rets            \* the value each of those calls returned

VARIABLES
    \* ---- one call of train_model (SpecTrain)
    trainer,             \* the trainer (self): kind, n_epochs, early_stop_patience, scheduler, attack_scheduler
    args,                \* the arguments of train_model: train_loader, valid_loader
    attack,              \* self.attack (DiscTrainer), replaced by the attack scheduler
    pc,                  \* the position in train_model
    epoch,               \* the loop variable of `for epoch in range(self.n_epochs)`
    earl_stopper,        \* the local earl_stopper: <<>> while unbound, else <<object>>
    dict_logging,        \* self.dict_logging
    adv_loaders,         \* the locals adv_train_loader, adv_valid_loader: <<>> while unbound
    train_metrics_epoch, \* the local of that name: <<>> while unbound
    test_metrics_epoch,  \* the local of that name: <<>> while unbound
    returned,            \* <<>> until train_model returns, then <<the dictionary returned>>
    calls                \* how often each collaborator was called, and the loaders the steps got
                         \* (what a mock would record)

VARIABLES
    \* ---- the search-space functions of utils.py applied to a tree (SpecOpt)
    params_vary,    \* the search-space tree (optuna_params["hyperparameters_vary"])
    trial,          \* the optuna trial: its sampling strategy and the suggest_* calls it got
    resolved,       \* <<>>, then <<the mapping get_optimization_dict returned>>
    defaults,       \* <<>>, then <<the mapping collect_default_params returned>>
    best_params,    \* the flat best-parameter mapping given to update_trainer_params
    final           \* <<>>, then <<the mapping update_trainer_params returned>>

VARIABLES
    \* ---- one call of initialize_with_params (SpecInitialize)
    init_call,      \* the call: the class it is a static method of, and its arguments
    factory_calls   \* the calls of the get_* factories so far, in order: factory and params

esVars == <<stopper, hist, rets>>

initVars == <<init_call, factory_calls>>

optVars == <<params_vary, trial, resolved, defaults, best_params, final>>

trainVars == <<trainer, args, attack, pc, epoch, earl_stopper, dict_logging, adv_loaders,
               train_metrics_epoch, test_metrics_epoch, returned, calls>>

vars == <<stopper, hist, rets,
          trainer, args, attack, pc, epoch, earl_stopper, dict_logging, adv_loaders,
          train_metrics_epoch, test_metrics_epoch, returned, calls,
          params_vary, trial, resolved, defaults, best_params, final,
          init_call, factory_calls>>

(***************************************************************************)
(* Bounds of the model.                                                    *)
(***************************************************************************)
MaxPatience == 3
MaxDelta == 1
MaxLoss == 2
MaxCalls == 5
MaxEpochs == 3
MaxTrainPatience == 2
MaxSamples == 2
MaxKeys == 3
MaxValue == 1

\* np.inf: a value above every loss and every loss + min_delta of the model
Inf == 1000

Losses == 0..MaxLoss

(***************************************************************************)
(* EarlyStopper                                                            *)
(***************************************************************************)

\* EarlyStopper.__init__
EarlyStopper(patience, min_delta) ==
    [patience |-> patience,
     min_delta |-> min_delta,
     counter |-> 0,
     min_validation_loss |-> Inf]

\* min_validation_loss + min_delta in floating point: inf + d = inf
PlusDelta(m, d) == IF m = Inf THEN Inf ELSE m + d

\* A mutant of early_stop: a loss on the plateau [min, min + delta] resets the counter.
early_stop_plateau_resets(self, validation_loss) ==
    IF validation_loss < self.min_validation_loss
    THEN [self |-> [self EXCEPT !.min_validation_loss = validation_loss,
                                !.counter = 0],
          ret |-> FALSE]
    ELSE IF validation_loss > PlusDelta(self.min_validation_loss, self.min_delta)
    THEN [self |-> [self EXCEPT !.counter = self.counter + 1],
          ret |-> self.counter + 1 >= self.patience]
    ELSE [self |-> [self EXCEPT !.counter = 0], ret |-> FALSE]

\* A mutant of early_stop: the counter is not reset when the loss improves.
early_stop_no_reset(self, validation_loss) ==
    IF validation_loss < self.min_validation_loss
    THEN [self |-> [self EXCEPT !.min_validation_loss = validation_loss],
          ret |-> FALSE]
    ELSE IF validation_loss > PlusDelta(self.min_validation_loss, self.min_delta)
    THEN [self |-> [self EXCEPT !.counter = self.counter + 1],
          ret |-> self.counter + 1 >= self.patience]
    ELSE [self |-> self, ret |-> FALSE]

\* A mutant of early_stop: the comparison with patience is strict.
early_stop_strict_patience(self, validation_loss) ==
    IF validation_loss < self.min_validation_loss
    THEN [self |-> [self EXCEPT !.min_validation_loss = validation_loss,
                                !.counter = 0],
          ret |-> FALSE]
    ELSE IF validation_loss > PlusDelta(self.min_validation_loss, self.min_delta)
    THEN [self |-> [self EXCEPT !.counter = self.counter + 1],
          ret |-> self.counter + 1 > self.patience]
    ELSE [self |-> self, ret |-> FALSE]

\* EarlyStopper.early_stop: the object after the call and the value returned
early_stop(self, validation_loss) ==
    IF validation_loss < self.min_validation_loss
    THEN [self |-> [self EXCEPT !.min_validation_loss = validation_loss,
                                !.counter = 0],
          ret |-> FALSE]
    ELSE IF validation_loss > PlusDelta(self.min_validation_loss, self.min_delta)
    THEN [self |-> [self EXCEPT !.counter = self.counter + 1],
          ret |-> self.counter + 1 >= self.patience]
    ELSE [self |-> self, ret |-> FALSE]

\* A stopper built with any patience and min_delta of the bounds, no call made yet.
ESInit ==
    /\ \E p \in 0..MaxPatience, d \in 0..MaxDelta : stopper = EarlyStopper(p, d)
    /\ hist = <<>>
    /\ rets = <<>>

\* One call early_stop(loss); calls go on after a call returned True.
EarlyStopCall ==
    /\ Len(hist) < MaxCalls
    /\ \E loss \in Losses :
         LET r == early_stop(stopper, loss) IN
           /\ stopper' = r.self
           /\ hist' = Append(hist, loss)
           /\ rets' = Append(rets, r.ret)

\* No stopper is driven on its own.
ESIdle ==
    /\ stopper = EarlyStopper(1, 0)
    /\ hist = <<>>
    /\ rets = <<>>

(***************************************************************************)
(* What a sequence of losses says, read off the history alone.             *)
(***************************************************************************)
RECURSIVE Best(_, _)
\* the best (smallest) loss among the first k losses of h; np.inf when k = 0
Best(h, k) ==
    IF k = 0 THEN Inf
    ELSE LET b == Best(h, k - 1) IN IF h[k] < b THEN h[k] ELSE b

\* call k fed a loss above (best-so-far + min_delta)
Exceeds(h, k) == h[k] > PlusDelta(Best(h, k - 1), stopper.min_delta)

\* call k fed a strictly better loss than all before it
Improves(h, k) == h[k] < Best(h, k - 1)

RECURSIVE ConsecRun(_, _)
\* the length of the run of consecutive exceeding calls that ends with call k
ConsecRun(h, k) ==
    IF k = 0 \/ ~Exceeds(h, k) THEN 0 ELSE 1 + ConsecRun(h, k - 1)

RECURSIVE SinceImprove(_, _)
\* the number of exceeding calls since the last strictly better loss, up to call k
SinceImprove(h, k) ==
    IF k = 0 \/ Improves(h, k) THEN 0
    ELSE SinceImprove(h, k - 1) + (IF Exceeds(h, k) THEN 1 ELSE 0)

\* call k is the first call that returned True
FirstTrueAt(k) == rets[k] /\ \A j \in 1..(k - 1) : ~rets[j]

\* call k is the first call ending a run of patience consecutive exceeding calls
FirstConsecAt(k) ==
    /\ ConsecRun(hist, k) = stopper.patience
    /\ \A j \in 1..(k - 1) : ConsecRun(hist, j) # stopper.patience

\* call k is the first at which the exceeding calls since the last improvement number patience
FirstSinceImproveAt(k) ==
    /\ SinceImprove(hist, k) = stopper.patience
    /\ \A j \in 1..(k - 1) : SinceImprove(hist, j) # stopper.patience

\* C1 as stated: with patience P >= 1, early_stop first returns True on the P-th
\* CONSECUTIVE call whose loss exceeds best-so-far + min_delta, and on no earlier call.
C1_FirstStopOnPthConsecutive ==
    stopper.patience >= 1 =>
        \A k \in 1..Len(hist) : FirstTrueAt(k) <=> FirstConsecAt(k)

\* C1 amended: with patience P >= 1, early_stop first returns True on the P-th call
\* whose loss exceeds best-so-far + min_delta since the last strictly better loss
\* (calls on the plateau [best, best + min_delta] in between neither count nor
\* reset the count), and on no earlier call.
C1_FirstStopOnPthSinceImprovement ==
    stopper.patience >= 1 =>
        \A k \in 1..Len(hist) : FirstTrueAt(k) <=> FirstSinceImproveAt(k)

\* C1 witness: the first True came after a plateau call broke the run of exceeding calls.
C1_Witness ==
    /\ stopper.patience >= 2
    /\ Len(hist) >= 1
    /\ FirstTrueAt(Len(hist))
    /\ ConsecRun(hist, Len(hist)) < stopper.patience

\* what one call early_stop(loss) may do to the counter and the minimum
C2_StepUpdate ==
    LET loss == hist'[Len(hist')]
        m == stopper.min_validation_loss
        c == stopper.counter
        m2 == stopper'.min_validation_loss
        c2 == stopper'.counter
    IN  Len(hist') = Len(hist) + 1 =>
          /\ loss < m => (m2 = loss /\ c2 = 0)
          /\ ~(loss < m) => m2 = m
          /\ c2 > c => (loss > PlusDelta(m, stopper.min_delta) /\ c2 = c + 1)
          /\ (~(loss < m) /\ ~(loss > PlusDelta(m, stopper.min_delta))) => c2 = c
          /\ stopper'.patience = stopper.patience
          /\ stopper'.min_delta = stopper.min_delta

\* C2: every call early_stop(loss) resets the counter and takes the loss as the new
\* minimum when the loss is strictly below the minimum, increments the counter by
\* exactly one only when loss > minimum + min_delta, and otherwise changes neither;
\* so the counter is never negative and the minimum is the least loss observed.
C2_CounterAndMinimum ==
    /\ [](stopper.counter >= 0)
    /\ [](stopper.min_validation_loss = Best(hist, Len(hist)))
    /\ [][C2_StepUpdate]_vars

\* C2 witness: a strictly better loss arrived while the counter was positive, and reset it.
C2_Witness ==
    /\ Len(hist) >= 3
    /\ Improves(hist, Len(hist))
    /\ SinceImprove(hist, Len(hist) - 1) >= 1
    /\ stopper.counter = 0
    /\ stopper.min_validation_loss = hist[Len(hist)]

\* C3 as stated: every call, also one after a call that returned True, returns True
\* exactly when the counter after the call is >= patience.
C3_TrueIffCounterAtLeastPatience ==
    (stopper.patience >= 1 /\ Len(hist) >= 1) =>
        (rets[Len(rets)] <=> stopper.counter >= stopper.patience)

\* C3 amended: a call returns True exactly when it increments the counter (its loss
\* exceeds minimum + min_delta) and the counter is then >= patience; it returns False
\* whenever the counter is below patience. A call that leaves a counter >= patience
\* unchanged (a plateau loss after a True) returns False.
C3_TrueIffIncrementedToPatience ==
    Len(hist) >= 1 =>
        /\ rets[Len(rets)] <=>
              (Exceeds(hist, Len(hist)) /\ stopper.counter >= stopper.patience)
        /\ stopper.counter < stopper.patience => ~rets[Len(rets)]

\* C3 witness: after a call returned True, a plateau call returns False although the
\* counter is still >= patience.
C3_Witness ==
    /\ stopper.patience >= 1
    /\ Len(hist) >= 2
    /\ \E j \in 1..(Len(rets) - 1) : rets[j]
    /\ ~rets[Len(rets)]
    /\ stopper.counter >= stopper.patience


(***************************************************************************)
(* Python values of mixed type (early_stop_patience: None, "None", an int) *)
(***************************************************************************)
PyNone == [type |-> "NoneType"]
PyStr(s) == [type |-> "str", s |-> s]
PyInt(i) == [type |-> "int", i |-> i]

\* bool(v)
Truthy(v) ==
    CASE v.type = "NoneType" -> FALSE
      [] v.type = "str" -> v.s # ""
      [] v.type = "int" -> v.i # 0

\* A mutant of StopperConfigured: any int counts as configured, the patience 0 too
\* (`is not None` for the truth test).
StopperConfiguredZeroCounts(p) == p.type = "int"

\* `self.early_stop_patience and self.early_stop_patience != "None"`
StopperConfigured(p) == Truthy(p) /\ p # PyStr("None")

(***************************************************************************)
(* Collaborators of train_model                                            *)
(***************************************************************************)
\* ClassifierEstimator.get_metrics_names(): the names the progress line reads
EstimatorNames == <<"accuracy", "f1", "balance_pred">>

\* what the estimator returns for an epoch, aligned with its names
EstimatorValues == <<1, 1, 0>>

\* the mean training losses _train_step may return
TrainLosses == {0, 1}

\* the validation-loss curve of the scenario, in hundredths: 1.0, 0.9, 0.95, 0.96, 0.97
ScenarioCurve == <<100, 90, 95, 96, 97>>

\* the mean validation losses _valid_step may return in epoch e (0-based): the next
\* value of the trainer's prescribed curve, and any loss once the curve is used up
ValidLosses(e) ==
    IF e + 1 <= Len(trainer.curve) THEN {trainer.curve[e + 1]} ELSE Losses

\* a dataset of n samples behind a loader
LoaderOf(n) == [X |-> [i \in 1..n |-> i], y |-> [i \in 1..n |-> i % 2]]

\* attack.apply_attack(loader).squeeze(-1): the perturbed features, of the shape of
\* the original ones, or of another shape when the attack is malformed
apply_attack(a, loader) ==
    {[i \in 1..Len(loader.X) |-> loader.X[i] + 10 + a.eps],
     [i \in 1..(Len(loader.X) - 1) |-> loader.X[i] + 10 + a.eps]}

\* AttackScheduler.step(): the attack to use from now on
attack_scheduler_step(a) == [a EXCEPT !.eps = a.eps + 1]

\* {met_name: met_val for met_name, met_val in zip(metric_names, values)}
ZipDict(names, values) ==
    LET n == IF Len(names) < Len(values) THEN Len(names) ELSE Len(values) IN
    [m \in {names[i] : i \in 1..n} |->
        values[CHOOSE i \in 1..n : names[i] = m /\ \A j \in (i + 1)..n : names[j] # m]]

\* metric_names = ["loss"] + self.estimator.get_metrics_names()
metric_names == <<"loss">> \o EstimatorNames

EmptyDict == [k \in {} |-> <<>>]

\* A mutant of _logging: the values are appended to the "train" split whatever the mode.
logging_always_train(log, data, mode) ==
    [log EXCEPT !["train"] = [metric \in DOMAIN log["train"] |->
                                 Append(log["train"][metric], data[metric])]]

\* Trainer._logging: the log after appending data[metric] to every metric of the split
logging(log, data, mode) ==
    [log EXCEPT ![mode] = [metric \in DOMAIN log[mode] |->
                              Append(log[mode][metric], data[metric])]]

(***************************************************************************)
(* utils.py: the search space and the functions that walk it               *)
(***************************************************************************)
\* the parameter names of the model, in the order the dictionaries hold them
NameSeq == <<"lr", "batch">>

Names == {NameSeq[i] : i \in 1..Len(NameSeq)}

\* the scalar values a leaf can declare, a sampler can suggest, a study can report
Values == {PyInt(i) : i \in 0..MaxValue}

EmptyTree == [k \in {} |-> PyNone]

\* the leaves: a node carrying optuna_type, with the arguments of its kind
Leaves ==
    [optuna_type : {"int"}, low : {PyInt(0)}, high : Values]
    \cup [optuna_type : {"float"}, low : Values, high : {PyInt(MaxValue)}]
    \cup [optuna_type : {"choice"}, choices : {<<PyInt(0), PyInt(MaxValue)>>}]
    \cup [optuna_type : {"const"}, value : Values]

RECURSIVE TreesOfSize(_)
\* the search-space trees (internal nodes) with n keys in all, at any depth
TreesOfSize(n) ==
    IF n = 0 THEN {EmptyTree}
    ELSE LET NodesOfSize(m) == (IF m = 0 THEN Leaves ELSE {}) \cup TreesOfSize(m) IN
         {[k \in {name} |-> x] : name \in Names, x \in NodesOfSize(n - 1)}
         \cup (IF n < 2 THEN {}
               ELSE UNION {{[k \in Names |-> IF k = NameSeq[1] THEN x ELSE y] :
                               x \in NodesOfSize(i), y \in NodesOfSize(n - 2 - i)} :
                           i \in 0..(n - 2)})

Trees == UNION {TreesOfSize(n) : n \in 0..MaxKeys}

\* `'optuna_type' in param_value`
IsLeaf(param_value) == "optuna_type" \in DOMAIN param_value

\* isinstance(value, dict): a nested mapping, not a scalar or None
IsDict(value) == "type" \notin DOMAIN value

\* d[k] = v on a copy of the dictionary d
DictSet(d, k, v) == [x \in DOMAIN d \cup {k} |-> IF x = k THEN v ELSE d[x]]

\* the sampling strategies of the trials the model resolves against
Strategies == {"low", "high", "alternate"}

\* a fresh trial
Trial(strategy) == [strategy |-> strategy, calls |-> <<>>]

\* what the sampler answers to a request: a value within the declared bounds, or one
\* of the declared choices
Suggested(t, optuna_type, kwargs) ==
    LET low == t.strategy = "low" \/ (t.strategy = "alternate" /\ Len(t.calls) % 2 = 0) IN
    IF optuna_type = "choice"
    THEN (IF low THEN kwargs.choices[1] ELSE kwargs.choices[Len(kwargs.choices)])
    ELSE (IF low THEN kwargs.low ELSE kwargs.high)

\* trial.suggest_int / suggest_float / suggest_categorical (**optuna_params): the value
\* suggested and the trial, which has recorded the request
suggest(t, fn, optuna_type, kwargs) ==
    <<Suggested(t, optuna_type, kwargs),
      [t EXCEPT !.calls = Append(@, [fn |-> fn, kwargs |-> kwargs])]>>

\* A mutant of get_optuna_param_for_type: the branch of "choice" is missing.
get_optuna_param_for_type_no_choice(param_name, optuna_type, optuna_params, initial_model_parameters, t) ==
    IF optuna_type = "int"
    THEN LET r == suggest(t, "suggest_int", optuna_type, optuna_params) IN
         <<DictSet(initial_model_parameters, param_name, r[1]), r[2]>>
    ELSE IF optuna_type = "float"
    THEN LET r == suggest(t, "suggest_float", optuna_type, optuna_params) IN
         <<DictSet(initial_model_parameters, param_name, r[1]), r[2]>>
    ELSE IF optuna_type = "const"
    THEN <<DictSet(initial_model_parameters, param_name, optuna_params.value), t>>
    ELSE <<initial_model_parameters, t>>

\* A mutant of get_optuna_param_for_type: a const leaf is sampled as a categorical
\* with its value as the only choice.
get_optuna_param_for_type_const_sampled(param_name, optuna_type, optuna_params, initial_model_parameters, t) ==
    IF optuna_type = "int"
    THEN LET r == suggest(t, "suggest_int", optuna_type, optuna_params) IN
         <<DictSet(initial_model_parameters, param_name, r[1]), r[2]>>
    ELSE IF optuna_type = "float"
    THEN LET r == suggest(t, "suggest_float", optuna_type, optuna_params) IN
         <<DictSet(initial_model_parameters, param_name, r[1]), r[2]>>
    ELSE IF optuna_type = "choice"
    THEN LET r == suggest(t, "suggest_categorical", optuna_type, optuna_params) IN
         <<DictSet(initial_model_parameters, param_name, r[1]), r[2]>>
    ELSE IF optuna_type = "const"
    THEN LET r == suggest(t, "suggest_categorical", "choice",
                          [name |-> optuna_params.name,
                           choices |-> <<optuna_params.value>>]) IN
         <<DictSet(initial_model_parameters, param_name, r[1]), r[2]>>
    ELSE <<initial_model_parameters, t>>

\* get_optuna_param_for_type: the mapping with the leaf's value set, and the trial
get_optuna_param_for_type(param_name, optuna_type, optuna_params, initial_model_parameters, t) ==
    IF optuna_type = "int"
    THEN LET r == suggest(t, "suggest_int", optuna_type, optuna_params) IN
         <<DictSet(initial_model_parameters, param_name, r[1]), r[2]>>
    ELSE IF optuna_type = "float"
    THEN LET r == suggest(t, "suggest_float", optuna_type, optuna_params) IN
         <<DictSet(initial_model_parameters, param_name, r[1]), r[2]>>
    ELSE IF optuna_type = "choice"
    THEN LET r == suggest(t, "suggest_categorical", optuna_type, optuna_params) IN
         <<DictSet(initial_model_parameters, param_name, r[1]), r[2]>>
    ELSE IF optuna_type = "const"
    THEN <<DictSet(initial_model_parameters, param_name, optuna_params.value), t>>
    ELSE <<initial_model_parameters, t>>

\* optuna_params = dict(param_value); del optuna_params['optuna_type'];
\* optuna_params['name'] = param_name
OptunaParams(param_name, param_value) ==
    [k \in (DOMAIN param_value \ {"optuna_type"}) \cup {"name"} |->
        IF k = "name" THEN PyStr(param_name) ELSE param_value[k]]

RECURSIVE get_optimization_dict(_, _)
RECURSIVE get_optimization_dict_items(_, _, _, _)
\* get_optimization_dict: the resolved mapping and the trial
get_optimization_dict(pv, t) == get_optimization_dict_items(pv, 1, EmptyTree, t)

\* the loop `for param_name, param_value in params_vary.items()` from the i-th name on
get_optimization_dict_items(pv, i, initial_model_parameters, t) ==
    IF i > Len(NameSeq) THEN <<initial_model_parameters, t>>
    ELSE LET param_name == NameSeq[i] IN
         IF param_name \notin DOMAIN pv
         THEN get_optimization_dict_items(pv, i + 1, initial_model_parameters, t)
         ELSE LET param_value == pv[param_name] IN
              IF IsLeaf(param_value)
              THEN LET r == get_optuna_param_for_type(
                                param_name, param_value.optuna_type,
                                OptunaParams(param_name, param_value),
                                initial_model_parameters, t) IN
                   get_optimization_dict_items(pv, i + 1, r[1], r[2])
              ELSE LET sub == get_optimization_dict(param_value, t) IN
                   get_optimization_dict_items(
                       pv, i + 1, DictSet(initial_model_parameters, param_name, sub[1]),
                       sub[2])

RECURSIVE collect_default_params_all_none(_)
\* A mutant of collect_default_params: a const leaf gets None like any other leaf.
collect_default_params_all_none(pv) ==
    [param_name \in DOMAIN pv |->
        IF IsLeaf(pv[param_name]) THEN PyNone
        ELSE collect_default_params_all_none(pv[param_name])]

RECURSIVE collect_default_params(_)
\* collect_default_params: the value of every const leaf, None for every other leaf
collect_default_params(pv) ==
    [param_name \in DOMAIN pv |->
        IF IsLeaf(pv[param_name])
        THEN (IF pv[param_name].optuna_type = "const"
              THEN pv[param_name].value
              ELSE PyNone)
        ELSE collect_default_params(pv[param_name])]

\* A mutant of update_one_best_param: nested mappings are not searched.
update_one_best_param_top_only(best_param_name, best_param_value, final_best_params) ==
    [def_param_name \in DOMAIN final_best_params |->
        IF IsDict(final_best_params[def_param_name])
        THEN final_best_params[def_param_name]
        ELSE IF best_param_name = def_param_name
             THEN best_param_value
             ELSE final_best_params[def_param_name]]

RECURSIVE update_one_best_param(_, _, _)
\* update_one_best_param: every key of the tree that holds no mapping and equals the
\* name gets the value
update_one_best_param(best_param_name, best_param_value, final_best_params) ==
    [def_param_name \in DOMAIN final_best_params |->
        IF IsDict(final_best_params[def_param_name])
        THEN update_one_best_param(best_param_name, best_param_value,
                                   final_best_params[def_param_name])
        ELSE IF best_param_name = def_param_name
             THEN best_param_value
             ELSE final_best_params[def_param_name]]

RECURSIVE update_trainer_params_items(_, _, _)
\* the loop `for best_param_name, best_param_value in best_params.items()` from the
\* i-th name on
update_trainer_params_items(best, i, final_best_params) ==
    IF i > Len(NameSeq) THEN final_best_params
    ELSE IF NameSeq[i] \notin DOMAIN best
         THEN update_trainer_params_items(best, i + 1, final_best_params)
         ELSE update_trainer_params_items(
                  best, i + 1,
                  update_one_best_param(NameSeq[i], best[NameSeq[i]], final_best_params))

\* update_trainer_params: a deep copy of the defaults with every best parameter applied
update_trainer_params(best, default_params) ==
    update_trainer_params_items(best, 1, default_params)

\* the flat mappings a study can report as its best parameters
BestParams == UNION {[S -> Values] : S \in SUBSET Names}

\* Any search-space tree of the bounds; nothing applied to it yet.
OptInit ==
    /\ params_vary \in Trees
    /\ trial = Trial("low")
    /\ resolved = <<>>
    /\ defaults = <<>>
    /\ best_params = EmptyTree
    /\ final = <<>>

\* No search space is walked.
OptIdle ==
    /\ params_vary = EmptyTree
    /\ trial = Trial("low")
    /\ resolved = <<>>
    /\ defaults = <<>>
    /\ best_params = EmptyTree
    /\ final = <<>>

\* initial_model_parameters, _ = get_optimization_dict(params_vary, trial), against a
\* trial of any strategy
Resolve ==
    /\ resolved = <<>>
    /\ \E strategy \in Strategies :
         LET r == get_optimization_dict(params_vary, Trial(strategy)) IN
           /\ resolved' = <<r[1]>>
           /\ trial' = r[2]
    /\ UNCHANGED <<params_vary, defaults, best_params, final>>
    /\ UNCHANGED <<esVars, trainVars, initVars>>

\* default_params = collect_default_params(params_vary)
CollectDefaults ==
    /\ defaults = <<>>
    /\ defaults' = <<collect_default_params(params_vary)>>
    /\ UNCHANGED <<params_vary, trial, resolved, best_params, final>>
    /\ UNCHANGED <<esVars, trainVars, initVars>>

\* update_trainer_params(best_params, default_params), for any flat best-parameter mapping
UpdateTrainerParams ==
    /\ defaults # <<>>
    /\ final = <<>>
    /\ \E best \in BestParams :
         /\ best_params' = best
         /\ final' = <<update_trainer_params(best, defaults[1])>>
    /\ UNCHANGED <<params_vary, trial, resolved, defaults>>
    /\ UNCHANGED <<esVars, trainVars, initVars>>

(***************************************************************************)
(* Trainer.initialize_with_params and DiscTrainer.initialize_with_params   *)
(***************************************************************************)
\* a parameter mapping with an entry
SomeParams == [k \in {NameSeq[1]} |-> PyInt(MaxValue)]

\* What a caller passes for an optional parameter mapping: nothing (the default None)
\* or None, the string "None", an empty mapping, a mapping with an entry.
ParamArgs == {PyNone, PyStr("None"), EmptyTree, SomeParams}

\* the optional parameter mappings of the two static methods, in the order of the
\* factory calls
TrainerParamNames == <<"model_params", "criterion_params", "optimizer_params", "scheduler_params">>
DiscTrainerParamNames == TrainerParamNames \o <<"attack_params", "attack_scheduler_params">>

\* the factory each mapping is handed to
FactoryOf ==
    [model_params |-> "get_model", criterion_params |-> "get_criterion",
     optimizer_params |-> "get_optimizer", scheduler_params |-> "get_scheduler",
     attack_params |-> "get_attack", attack_scheduler_params |-> "get_attack_scheduler"]

SeqRange(q) == {q[i] : i \in 1..Len(q)}

InitCalls ==
    [cls : {"Trainer"}, params : [SeqRange(TrainerParamNames) -> ParamArgs]]
    \cup [cls : {"DiscTrainer"}, params : [SeqRange(DiscTrainerParamNames) -> ParamArgs]]

\* bool(v) of a parameter argument: a mapping is true when it has an entry
ParamTruthy(v) == IF IsDict(v) THEN DOMAIN v # {} ELSE Truthy(v)

\* `if model_params == "None" or not model_params: model_params = {}`
NormalizeParams(v) == IF v = PyStr("None") \/ ~ParamTruthy(v) THEN EmptyTree ELSE v

\* the four factory calls both methods make, with the mappings normalised before them
CommonFactoryCalls(params) ==
    [i \in 1..Len(TrainerParamNames) |->
        [factory |-> FactoryOf[TrainerParamNames[i]],
         params |-> NormalizeParams(params[TrainerParamNames[i]])]]

InitializeInit ==
    /\ init_call \in InitCalls
    /\ factory_calls = <<>>

\* No initialize_with_params is called.
InitializeIdle ==
    /\ init_call = [cls |-> "none", params |-> EmptyTree]
    /\ factory_calls = <<>>

\* Trainer.initialize_with_params: the sentinels of the four mappings become {}, then
\* get_model, get_criterion, get_optimizer, get_scheduler are called
TrainerInitializeWithParams ==
    /\ init_call.cls = "Trainer"
    /\ factory_calls = <<>>
    /\ factory_calls' = CommonFactoryCalls(init_call.params)
    /\ UNCHANGED init_call
    /\ UNCHANGED <<esVars, trainVars, optVars>>

\* DiscTrainer.initialize_with_params: the same four, then get_attack(attack_name,
\* attack_params) and get_attack_scheduler(attack_scheduler_name, attack,
\* attack_scheduler_params) with the arguments as they were passed
DiscTrainerInitializeWithParams ==
    /\ init_call.cls = "DiscTrainer"
    /\ factory_calls = <<>>
    /\ factory_calls' = CommonFactoryCalls(init_call.params)
                          \o <<[factory |-> "get_attack",
                                params |-> init_call.params["attack_params"]],
                               [factory |-> "get_attack_scheduler",
                                params |-> init_call.params["attack_scheduler_params"]]>>
    /\ UNCHANGED init_call
    /\ UNCHANGED <<esVars, trainVars, optVars>>

(***************************************************************************)
(* Trainer.train_model and DiscTrainer.train_model, one step per action    *)
(***************************************************************************)
PatienceValues ==
    {PyNone, PyStr("None")} \cup {PyInt(i) : i \in 0..MaxTrainPatience}

\* The trainers train_model is run on: any trainer of the bounds, whose validation
\* losses are free, and the trainer of the scenario (n_epochs=10, early_stop_patience=3).
Trainers ==
    [kind : {"Trainer"}, n_epochs : 0..MaxEpochs, early_stop_patience : PatienceValues,
     scheduler : BOOLEAN, attack_scheduler : {FALSE}, curve : {<<>>}]
    \cup
    [kind : {"DiscTrainer"}, n_epochs : 0..MaxEpochs, early_stop_patience : PatienceValues,
     scheduler : BOOLEAN, attack_scheduler : BOOLEAN, curve : {<<>>}]
    \cup
    [kind : {"Trainer", "DiscTrainer"}, n_epochs : {10}, early_stop_patience : {PyInt(3)},
     scheduler : {TRUE}, attack_scheduler : {FALSE}, curve : {ScenarioCurve}]

NoCalls ==
    [train_step |-> 0, valid_step |-> 0, scheduler_step |-> 0,
     attack_scheduler_step |-> 0, apply_attack |-> 0, early_stop |-> 0,
     train_step_loaders |-> {}, valid_step_loaders |-> {}]

\* The trainer as constructed (Trainer.__init__: dict_logging = dict()), train_model not yet called.
TrainInit ==
    /\ trainer \in Trainers
    /\ \E n \in 1..MaxSamples :
         /\ trainer.kind = "Trainer" => n = 1
         /\ args = [train_loader |-> LoaderOf(n), valid_loader |-> LoaderOf(1)]
    /\ attack = [eps |-> 0]
    /\ pc = "init"
    /\ epoch = -1
    /\ earl_stopper = <<>>
    /\ dict_logging = EmptyDict
    /\ adv_loaders = <<>>
    /\ train_metrics_epoch = <<>>
    /\ test_metrics_epoch = <<>>
    /\ returned = <<>>
    /\ calls = NoCalls

\* No trainer is run.
TrainIdle ==
    /\ trainer = [kind |-> "Trainer", n_epochs |-> 0, early_stop_patience |-> PyNone,
                  scheduler |-> FALSE, attack_scheduler |-> FALSE, curve |-> <<>>]
    /\ args = [train_loader |-> LoaderOf(1), valid_loader |-> LoaderOf(1)]
    /\ attack = [eps |-> 0]
    /\ pc = "idle"
    /\ epoch = -1
    /\ earl_stopper = <<>>
    /\ dict_logging = EmptyDict
    /\ adv_loaders = <<>>
    /\ train_metrics_epoch = <<>>
    /\ test_metrics_epoch = <<>>
    /\ returned = <<>>
    /\ calls = NoCalls

\* train_model up to the loop: the stopper, if configured, and the empty metric log
Begin ==
    /\ pc = "init"
    /\ earl_stopper' = IF StopperConfigured(trainer.early_stop_patience)
                       THEN <<EarlyStopper(trainer.early_stop_patience.i, 0)>>
                       ELSE <<>>
    /\ dict_logging' = [split \in {"train", "test"} |->
                           [metric \in {metric_names[i] : i \in 1..Len(metric_names)} |-> <<>>]]
    /\ pc' = IF trainer.kind = "DiscTrainer" THEN "gen_train" ELSE "loop"
    /\ UNCHANGED <<trainer, args, attack, epoch, adv_loaders, train_metrics_epoch,
                   test_metrics_epoch, returned, calls>>
    /\ UNCHANGED <<esVars, optVars, initVars>>

\* A mutant of generate_adversarial_data: the perturbed half is labelled with zeros_like
\* too (the line of the originals copied without changing it to ones_like).
generate_adversarial_data_all_zeros(loader, X_adv) ==
    [X |-> loader.X \o X_adv,
     y |-> [i \in 1..Len(loader.y) |-> 0] \o [i \in 1..Len(loader.y) |-> 0]]

\* DiscTrainer._generate_adversarial_data after the attack returned X_adv: the loader of
\* the originals labelled 0 followed by the perturbed samples labelled 1
generate_adversarial_data(loader, X_adv) ==
    [X |-> loader.X \o X_adv,
     y |-> [i \in 1..Len(loader.y) |-> 0] \o [i \in 1..Len(loader.y) |-> 1]]

\* A mutant of GenerateAdversarial: the shape assertion is gone, whatever the attack
\* returned is concatenated and train_model goes on.
GenerateAdversarialNoAssert(at, loader, next) ==
    /\ pc = at
    /\ \E X_adv \in apply_attack(attack, loader) :
         adv_loaders' = Append(adv_loaders, generate_adversarial_data(loader, X_adv))
    /\ pc' = next
    /\ calls' = [calls EXCEPT !.apply_attack = @ + 1]
    /\ UNCHANGED <<trainer, args, attack, epoch, earl_stopper, dict_logging,
                   train_metrics_epoch, test_metrics_epoch, returned>>
    /\ UNCHANGED <<esVars, optVars, initVars>>

\* adv_train_loader = self._generate_adversarial_data(train_loader, transform), and
\* adv_valid_loader = self._generate_adversarial_data(valid_loader): the attack is
\* applied, and `assert X_orig.shape == X_adv.shape` ends train_model when it fails
GenerateAdversarial(at, loader, next) ==
    /\ pc = at
    /\ \E X_adv \in apply_attack(attack, loader) :
         IF Len(X_adv) = Len(loader.X)
         THEN /\ adv_loaders' = Append(adv_loaders, generate_adversarial_data(loader, X_adv))
              /\ pc' = next
         ELSE /\ adv_loaders' = adv_loaders
              /\ pc' = "assertion_error"
    /\ calls' = [calls EXCEPT !.apply_attack = @ + 1]
    /\ UNCHANGED <<trainer, args, attack, epoch, earl_stopper, dict_logging,
                   train_metrics_epoch, test_metrics_epoch, returned>>
    /\ UNCHANGED <<esVars, optVars, initVars>>

GenTrain == GenerateAdversarial("gen_train", args.train_loader, "gen_valid")

GenValid == GenerateAdversarial("gen_valid", args.valid_loader, "loop")

\* `for epoch in range(self.n_epochs)`: the next epoch, or the end of the loop
LoopHead ==
    /\ pc = "loop"
    /\ IF epoch + 1 < trainer.n_epochs
       THEN epoch' = epoch + 1 /\ pc' = "train_step"
       ELSE epoch' = epoch /\ pc' = "return"
    /\ UNCHANGED <<trainer, args, attack, earl_stopper, dict_logging, adv_loaders,
                   train_metrics_epoch, test_metrics_epoch, returned, calls>>
    /\ UNCHANGED <<esVars, optVars, initVars>>

\* The loaders the loop hands to _train_step and _valid_step: train_loader and
\* valid_loader in Trainer, adv_train_loader and adv_valid_loader in DiscTrainer.
StepLoaders ==
    IF trainer.kind = "DiscTrainer"
    THEN adv_loaders
    ELSE <<args.train_loader, args.valid_loader>>

\* train_metrics_epoch = self._train_step(loader), zipped with the metric names
TrainStep ==
    /\ pc = "train_step"
    /\ \E l \in TrainLosses :
         train_metrics_epoch' = <<ZipDict(metric_names, <<l>> \o EstimatorValues)>>
    /\ calls' = [calls EXCEPT !.train_step = @ + 1,
                              !.train_step_loaders = @ \cup {StepLoaders[1]}]
    /\ pc' = "log_train"
    /\ UNCHANGED <<trainer, args, attack, epoch, earl_stopper, dict_logging, adv_loaders,
                   test_metrics_epoch, returned>>
    /\ UNCHANGED <<esVars, optVars, initVars>>

\* self._logging(train_metrics_epoch, epoch, mode="train")
LogTrain ==
    /\ pc = "log_train"
    /\ dict_logging' = logging(dict_logging, train_metrics_epoch[1], "train")
    /\ pc' = "valid_step"
    /\ UNCHANGED <<trainer, args, attack, epoch, earl_stopper, adv_loaders,
                   train_metrics_epoch, test_metrics_epoch, returned, calls>>
    /\ UNCHANGED <<esVars, optVars, initVars>>

\* test_metrics_epoch = self._valid_step(loader), zipped with the metric names
ValidStep ==
    /\ pc = "valid_step"
    /\ \E l \in ValidLosses(epoch) :
         test_metrics_epoch' = <<ZipDict(metric_names, <<l>> \o EstimatorValues)>>
    /\ calls' = [calls EXCEPT !.valid_step = @ + 1,
                              !.valid_step_loaders = @ \cup {StepLoaders[2]}]
    /\ pc' = "log_test"
    /\ UNCHANGED <<trainer, args, attack, epoch, earl_stopper, dict_logging, adv_loaders,
                   train_metrics_epoch, returned>>
    /\ UNCHANGED <<esVars, optVars, initVars>>

\* self._logging(test_metrics_epoch, epoch, mode="test")
LogTest ==
    /\ pc = "log_test"
    /\ dict_logging' = logging(dict_logging, test_metrics_epoch[1], "test")
    /\ pc' = "scheduler"
    /\ UNCHANGED <<trainer, args, attack, epoch, earl_stopper, adv_loaders,
                   train_metrics_epoch, test_metrics_epoch, returned, calls>>
    /\ UNCHANGED <<esVars, optVars, initVars>>

\* A mutant of SchedulerStep: the step sits one indentation too deep, inside the block
\* of the progress line (`if epoch % self.print_every == 0`, print_every = 5).
SchedulerStepInPrintBlock ==
    /\ pc = "scheduler"
    /\ calls' = IF trainer.scheduler /\ epoch % 5 = 0
                THEN [calls EXCEPT !.scheduler_step = @ + 1]
                ELSE calls
    /\ pc' = IF trainer.kind = "DiscTrainer" THEN "attack_scheduler" ELSE "early_stop"
    /\ UNCHANGED <<trainer, args, attack, epoch, earl_stopper, dict_logging, adv_loaders,
                   train_metrics_epoch, test_metrics_epoch, returned>>
    /\ UNCHANGED <<esVars, optVars, initVars>>

\* `if self.scheduler: self.scheduler.step()`
SchedulerStep ==
    /\ pc = "scheduler"
    /\ calls' = IF trainer.scheduler
                THEN [calls EXCEPT !.scheduler_step = @ + 1]
                ELSE calls
    /\ pc' = IF trainer.kind = "DiscTrainer" THEN "attack_scheduler" ELSE "early_stop"
    /\ UNCHANGED <<trainer, args, attack, epoch, earl_stopper, dict_logging, adv_loaders,
                   train_metrics_epoch, test_metrics_epoch, returned>>
    /\ UNCHANGED <<esVars, optVars, initVars>>

\* A mutant of AttackSchedulerStep: the two regeneration lines after the step are code,
\* `train_loader = self._generate_adversarial_data(train_loader, transform)` and the
\* same for valid_loader, with the new attack (of outputs that pass the assertion).
AttackSchedulerStepRegenerates ==
    /\ pc = "attack_scheduler"
    /\ IF trainer.attack_scheduler
       THEN /\ attack' = attack_scheduler_step(attack)
            /\ \E Xt \in apply_attack(attack', args.train_loader),
                  Xv \in apply_attack(attack', args.valid_loader) :
                 /\ Len(Xt) = Len(args.train_loader.X)
                 /\ Len(Xv) = Len(args.valid_loader.X)
                 /\ args' = [train_loader |-> generate_adversarial_data(args.train_loader, Xt),
                             valid_loader |-> generate_adversarial_data(args.valid_loader, Xv)]
            /\ calls' = [calls EXCEPT !.attack_scheduler_step = @ + 1,
                                      !.apply_attack = @ + 2]
       ELSE UNCHANGED <<attack, calls, args>>
    /\ pc' = "early_stop"
    /\ UNCHANGED <<trainer, epoch, earl_stopper, dict_logging, adv_loaders,
                   train_metrics_epoch, test_metrics_epoch, returned>>
    /\ UNCHANGED <<esVars, optVars, initVars>>

\* DiscTrainer: `if self.attack_scheduler: self.attack = self.attack_scheduler.step()`;
\* the two regeneration lines after it are comments
AttackSchedulerStep ==
    /\ pc = "attack_scheduler"
    /\ IF trainer.attack_scheduler
       THEN /\ attack' = attack_scheduler_step(attack)
            /\ calls' = [calls EXCEPT !.attack_scheduler_step = @ + 1]
       ELSE UNCHANGED <<attack, calls>>
    /\ pc' = "early_stop"
    /\ UNCHANGED <<trainer, args, epoch, earl_stopper, dict_logging, adv_loaders,
                   train_metrics_epoch, test_metrics_epoch, returned>>
    /\ UNCHANGED <<esVars, optVars, initVars>>

\* A mutant of AfterEarlyStop: the stop signal only ends the loop one epoch later
\* (`continue` for `break`: the loop head decides).
AfterEarlyStopNoBreak(res_early_stop) == "loop"

\* `if res_early_stop: break`: where train_model goes after the stopper answered
AfterEarlyStop(res_early_stop) == IF res_early_stop THEN "return" ELSE "loop"

\* the early-stop observation that ends an epoch
EarlyStopStep ==
    /\ pc = "early_stop"
    /\ IF StopperConfigured(trainer.early_stop_patience)
       THEN LET r == early_stop(earl_stopper[1], test_metrics_epoch[1]["loss"]) IN
              /\ earl_stopper' = <<r.self>>
              /\ calls' = [calls EXCEPT !.early_stop = @ + 1]
              /\ pc' = AfterEarlyStop(r.ret)
       ELSE /\ UNCHANGED <<earl_stopper, calls>>
            /\ pc' = "loop"
    /\ UNCHANGED <<trainer, args, attack, epoch, dict_logging, adv_loaders,
                   train_metrics_epoch, test_metrics_epoch, returned>>
    /\ UNCHANGED <<esVars, optVars, initVars>>

\* `return test_metrics_epoch`: an UnboundLocalError when no epoch ran (n_epochs = 0)
Return ==
    /\ pc = "return"
    /\ IF test_metrics_epoch = <<>>
       THEN returned' = returned /\ pc' = "unbound_local_error"
       ELSE returned' = test_metrics_epoch /\ pc' = "done"
    /\ UNCHANGED <<trainer, args, attack, epoch, earl_stopper, dict_logging, adv_loaders,
                   train_metrics_epoch, test_metrics_epoch, calls>>
    /\ UNCHANGED <<esVars, optVars, initVars>>

InitES == ESInit /\ TrainIdle /\ OptIdle /\ InitializeIdle

NextES == EarlyStopCall /\ UNCHANGED <<trainVars, optVars, initVars>>

SpecES == InitES /\ [][NextES]_vars

InitTrain == TrainInit /\ ESIdle /\ OptIdle /\ InitializeIdle

NextTrain ==
    \/ Begin
    \/ GenTrain
    \/ GenValid
    \/ LoopHead
    \/ TrainStep
    \/ LogTrain
    \/ ValidStep
    \/ LogTest
    \/ SchedulerStep
    \/ AttackSchedulerStep
    \/ EarlyStopStep
    \/ Return

SpecTrain == InitTrain /\ [][NextTrain]_vars

(***************************************************************************)
(* What the metric log says about a run of train_model.                    *)
(***************************************************************************)
\* train_model has set up its log (it is running or has ended)
Started == pc \notin {"idle", "init"}

\* the loop has been left: by the budget or by the stopper
LoopLeft == pc \in {"return", "done", "unbound_local_error"}

\* the validation losses logged so far, one per epoch
LoggedLosses == dict_logging["test"]["loss"]

RECURSIVE ReplayStopper(_, _, _)
\* the stopper train_model creates, after observing the first k of the losses L
ReplayStopper(p, L, k) ==
    IF k = 0 THEN EarlyStopper(p, 0)
    ELSE early_stop(ReplayStopper(p, L, k - 1), L[k]).self

\* the stopper signals stop on the k-th of the losses L
SignalsAt(p, L, k) == early_stop(ReplayStopper(p, L, k - 1), L[k]).ret

\* every sequence of the log has length n
AllLengths(n) ==
    \A split \in DOMAIN dict_logging : \A metric \in DOMAIN dict_logging[split] :
        Len(dict_logging[split][metric]) = n

\* the validation metrics logged for epoch k (1-based)
LoggedTestMetrics(k) ==
    [metric \in DOMAIN dict_logging["test"] |-> dict_logging["test"][metric][k]]

\* C4: with early stopping configured, train_model leaves the loop in the very epoch
\* in which the stopper signals stop: no train step, validation step or log entry of
\* a later epoch exists, and what is returned is the validation metrics of that
\* epoch. In the scenario (n_epochs=10, patience 3, losses 1.0, 0.9, 0.95, 0.96,
\* 0.97) exactly 5 epochs run and the metrics of the 5th are returned.
C4_StopsInSignallingEpoch ==
    /\ (Started /\ StopperConfigured(trainer.early_stop_patience)) =>
          \A k \in 1..Len(LoggedLosses) :
              SignalsAt(trainer.early_stop_patience.i, LoggedLosses, k) =>
                  /\ calls.train_step <= k
                  /\ calls.valid_step <= k
                  /\ epoch + 1 = k
                  /\ \A metric \in DOMAIN dict_logging["train"] :
                        Len(dict_logging["train"][metric]) <= k
                  /\ \A metric \in DOMAIN dict_logging["test"] :
                        Len(dict_logging["test"][metric]) <= k
                  /\ pc \in {"scheduler", "attack_scheduler", "early_stop", "return", "done"}
                  /\ pc = "done" => returned = <<LoggedTestMetrics(k)>>
    /\ (trainer.curve = ScenarioCurve /\ Started) =>
          /\ calls.train_step <= 5
          /\ calls.valid_step <= 5
          /\ LoopLeft =>
                /\ calls.train_step = 5
                /\ calls.valid_step = 5
                /\ AllLengths(5)
                /\ pc # "unbound_local_error"
          /\ pc = "done" => returned = <<ZipDict(metric_names, <<97>> \o EstimatorValues)>>

\* C4 witness: the scenario has returned after its 5th epoch, 5 epochs short of the budget.
C4_Witness ==
    /\ trainer.curve = ScenarioCurve
    /\ trainer.n_epochs = 10
    /\ pc = "done"
    /\ epoch = 4
    /\ calls.train_step = 5
    /\ returned[1]["loss"] = 97

\* the epochs whose body has been run to its end (or left by break)
EpochsCompleted ==
    IF pc \in {"train_step", "log_train", "valid_step", "log_test",
               "scheduler", "attack_scheduler", "early_stop"}
    THEN epoch
    ELSE epoch + 1

\* both splits are there, with the metric names fixed at the start of train_model
SameMetricNames ==
    /\ DOMAIN dict_logging = {"train", "test"}
    /\ DOMAIN dict_logging["train"] = {metric_names[i] : i \in 1..Len(metric_names)}
    /\ DOMAIN dict_logging["test"] = DOMAIN dict_logging["train"]

\* C5 as stated: in every state during and after train_model both splits have the same
\* metric names and every sequence of both splits has length equal to the number of
\* epochs run so far (whether the running epoch is counted or not).
C5_LengthsEqualEpochsInEveryState ==
    Started =>
        /\ SameMetricNames
        /\ \E n \in {calls.train_step, EpochsCompleted} : AllLengths(n)

\* C5 amended: once train_model has set up the log, both splits always have the same
\* metric names, fixed at the start; at every epoch boundary (before an epoch starts
\* and after the loop) every sequence of both splits has length equal to the number
\* of epochs run; inside an epoch the train sequences are extended first, so from the
\* train log to the test log they are one longer than the test sequences.
C5_LengthsEqualEpochsAtBoundaries ==
    Started =>
        /\ SameMetricNames
        /\ pc \in {"gen_train", "gen_valid", "assertion_error", "loop", "return", "done",
                   "unbound_local_error", "train_step", "log_train"}
              => AllLengths(EpochsCompleted)
        /\ pc \in {"loop", "return", "done", "unbound_local_error"}
              => (EpochsCompleted = calls.train_step /\ EpochsCompleted = calls.valid_step)
        /\ pc \in {"valid_step", "log_test"} =>
              /\ \A metric \in DOMAIN dict_logging["train"] :
                    Len(dict_logging["train"][metric]) = EpochsCompleted + 1
              /\ \A metric \in DOMAIN dict_logging["test"] :
                    Len(dict_logging["test"][metric]) = EpochsCompleted
        /\ pc \in {"scheduler", "attack_scheduler", "early_stop"}
              => AllLengths(EpochsCompleted + 1)

\* C5 witness: in the second epoch, between the two log calls, the train sequences are
\* one longer than the test sequences.
C5_Witness ==
    /\ pc = "valid_step"
    /\ epoch = 1
    /\ Len(dict_logging["train"]["loss"]) = 2
    /\ Len(dict_logging["test"]["loss"]) = 1

\* C6: with early_stop_patience 0, None or "None" train_model never creates or
\* consults an EarlyStopper, and the loop is left only after exactly n_epochs epochs,
\* whatever the validation losses are.
C6_DisabledRunsWholeBudget ==
    (Started /\ trainer.early_stop_patience \in {PyInt(0), PyNone, PyStr("None")}) =>
        /\ earl_stopper = <<>>
        /\ calls.early_stop = 0
        /\ LoopLeft =>
              /\ calls.train_step = trainer.n_epochs
              /\ calls.valid_step = trainer.n_epochs
              /\ AllLengths(trainer.n_epochs)
              /\ epoch + 1 = trainer.n_epochs

\* C6 witness: a trainer with patience 0 has run its whole budget although the
\* validation loss rose twice running after the first epoch.
C6_Witness ==
    /\ trainer.early_stop_patience = PyInt(0)
    /\ pc = "done"
    /\ trainer.n_epochs >= 3
    /\ calls.train_step = trainer.n_epochs
    /\ LoggedLosses[2] > LoggedLosses[1]
    /\ LoggedLosses[3] > LoggedLosses[1]

(***************************************************************************)
(* What a tree and a mapping say, read off along their paths.              *)
(***************************************************************************)
\* the mark of a leaf in a shape
LeafMark == [leaf |-> TRUE]

RECURSIVE ShapeOfTree(_)
\* the nesting and the keys of a search-space tree
ShapeOfTree(tree) ==
    [k \in DOMAIN tree |-> IF IsLeaf(tree[k]) THEN LeafMark ELSE ShapeOfTree(tree[k])]

RECURSIVE ShapeOfMapping(_)
\* the nesting and the keys of a parameter mapping
ShapeOfMapping(m) ==
    [k \in DOMAIN m |-> IF IsDict(m[k]) THEN ShapeOfMapping(m[k]) ELSE LeafMark]

RECURSIVE LeafPaths(_)
\* the paths (key after key) to the leaves of a search-space tree
LeafPaths(tree) ==
    UNION {IF IsLeaf(tree[k]) THEN {<<k>>}
           ELSE {<<k>> \o p : p \in LeafPaths(tree[k])} : k \in DOMAIN tree}

RECURSIVE ValuePaths(_)
\* the paths to the values of a parameter mapping that are no mappings
ValuePaths(m) ==
    UNION {IF IsDict(m[k]) THEN {<<k>> \o p : p \in ValuePaths(m[k])}
           ELSE {<<k>>} : k \in DOMAIN m}

RECURSIVE At(_, _)
\* what a tree or mapping holds at the end of a path
At(m, path) == IF Len(path) = 1 THEN m[path[1]] ELSE At(m[path[1]], Tail(path))

\* the key a path ends with
KeyOf(path) == path[Len(path)]

\* the suggest_* method of a sampled kind
MethodOf(optuna_type) ==
    CASE optuna_type = "int" -> "suggest_int"
      [] optuna_type = "float" -> "suggest_float"
      [] optuna_type = "choice" -> "suggest_categorical"

\* C7: the mapping get_optimization_dict returns has the nesting and the key set of
\* the search-space tree at every level: one value under the name of each leaf, one
\* nested mapping under the name of each internal node.
C7_ResolvedMirrorsTree ==
    resolved # <<>> => ShapeOfMapping(resolved[1]) = ShapeOfTree(params_vary)

\* C7 witness: a tree with a choice leaf inside an internal node next to a leaf has
\* been resolved.
C7_Witness ==
    /\ resolved # <<>>
    /\ DOMAIN params_vary = {"lr", "batch"}
    /\ IsLeaf(params_vary["lr"])
    /\ ~IsLeaf(params_vary["batch"])
    /\ DOMAIN params_vary["batch"] = {"lr"}
    /\ IsLeaf(params_vary["batch"]["lr"])
    /\ params_vary["batch"]["lr"].optuna_type = "choice"
    /\ resolved[1]["batch"]["lr"] \in Values

\* C8: a const leaf resolves to its declared value under its name and costs no
\* request to the sampler, at any depth and for every sampler; an int or float leaf
\* is resolved by exactly one request, which carries the leaf's name and bounds.
C8_ConstNotSampled ==
    resolved # <<>> =>
        LET paths == LeafPaths(params_vary)
            sampled == {p \in paths : At(params_vary, p).optuna_type # "const"}
            requests == {i \in 1..Len(trial.calls) : TRUE}
        IN  /\ \A p \in paths :
                  At(params_vary, p).optuna_type = "const"
                      => At(resolved[1], p) = At(params_vary, p).value
            /\ \A p \in paths :
                  At(params_vary, p).optuna_type \in {"int", "float"}
                      => /\ At(resolved[1], p).i >= At(params_vary, p).low.i
                         /\ At(resolved[1], p).i <= At(params_vary, p).high.i
            /\ Cardinality(requests) = Cardinality(sampled)
            /\ \A p \in sampled :
                  LET leaf == At(params_vary, p)
                      same == {q \in sampled :
                                  /\ KeyOf(q) = KeyOf(p)
                                  /\ At(params_vary, q) = leaf}
                      asked == {i \in requests :
                                  /\ trial.calls[i].fn = MethodOf(leaf.optuna_type)
                                  /\ trial.calls[i].kwargs =
                                        [k \in (DOMAIN leaf \ {"optuna_type"}) \cup {"name"} |->
                                            IF k = "name" THEN PyStr(KeyOf(p)) ELSE leaf[k]]}
                  IN Cardinality(asked) = Cardinality(same)

\* C8 witness: a const leaf inside an internal node and a float leaf beside it were
\* resolved against a sampler that would have answered otherwise; one request was made.
C8_Witness ==
    /\ resolved # <<>>
    /\ trial.strategy = "high"
    /\ DOMAIN params_vary = {"lr", "batch"}
    /\ IsLeaf(params_vary["lr"])
    /\ params_vary["lr"].optuna_type = "float"
    /\ ~IsLeaf(params_vary["batch"])
    /\ DOMAIN params_vary["batch"] = {"batch"}
    /\ IsLeaf(params_vary["batch"]["batch"])
    /\ params_vary["batch"]["batch"].optuna_type = "const"
    /\ params_vary["batch"]["batch"].value = PyInt(0)
    /\ resolved[1]["batch"]["batch"] = PyInt(0)
    /\ Len(trial.calls) = 1
    /\ trial.calls[1].fn = "suggest_float"

\* C9: collect_default_params followed by update_trainer_params with an empty
\* best-parameter mapping gives a mapping of the shape of the tree in which every
\* const leaf holds its declared value and every other leaf None.
C9_EmptyBestKeepsDefaults ==
    (final # <<>> /\ best_params = EmptyTree) =>
        /\ ShapeOfMapping(final[1]) = ShapeOfTree(params_vary)
        /\ \A p \in LeafPaths(params_vary) :
              At(final[1], p) = IF At(params_vary, p).optuna_type = "const"
                                THEN At(params_vary, p).value
                                ELSE PyNone

\* C9 witness: the tree holds a const leaf inside an internal node and a sampled leaf,
\* and the empty best mapping has been applied to its defaults.
C9_Witness ==
    /\ final # <<>>
    /\ best_params = EmptyTree
    /\ DOMAIN params_vary = {"lr", "batch"}
    /\ IsLeaf(params_vary["lr"])
    /\ params_vary["lr"].optuna_type = "int"
    /\ ~IsLeaf(params_vary["batch"])
    /\ DOMAIN params_vary["batch"] = {"batch"}
    /\ IsLeaf(params_vary["batch"]["batch"])
    /\ params_vary["batch"]["batch"].optuna_type = "const"
    /\ final[1]["lr"] = PyNone
    /\ final[1]["batch"]["batch"] = params_vary["batch"]["batch"].value

\* C10: update_trainer_params overwrites, for every (name, value) of the best
\* mapping, every leaf of the defaults whose key is the name, at any depth, with the
\* value (all of them when the name occurs at several depths); a leaf whose key is
\* no name of the best mapping keeps its default; the shape does not change.
C10_EveryMatchingLeafOverwritten ==
    final # <<>> =>
        /\ ShapeOfMapping(final[1]) = ShapeOfMapping(defaults[1])
        /\ \A p \in ValuePaths(defaults[1]) :
              At(final[1], p) = IF KeyOf(p) \in DOMAIN best_params
                                THEN best_params[KeyOf(p)]
                                ELSE At(defaults[1], p)

\* C10 witness: the name lr is a leaf at two depths, both held another value by
\* default, and both hold the best value now.
C10_Witness ==
    /\ final # <<>>
    /\ "lr" \in DOMAIN best_params
    /\ DOMAIN defaults[1] = {"lr", "batch"}
    /\ ~IsDict(defaults[1]["lr"])
    /\ IsDict(defaults[1]["batch"])
    /\ DOMAIN defaults[1]["batch"] = {"lr"}
    /\ ~IsDict(defaults[1]["batch"]["lr"])
    /\ defaults[1]["lr"] # best_params["lr"]
    /\ defaults[1]["batch"]["lr"] # best_params["lr"]
    /\ final[1]["lr"] = best_params["lr"]
    /\ final[1]["batch"]["lr"] = best_params["lr"]

\* ---------------------------------------------------------------------------
\* DiscTrainer: the adversarial loaders
\* ---------------------------------------------------------------------------

\* The loaders train_model hands to _generate_adversarial_data, in the order of the calls.
SourceLoaders == <<args.train_loader, args.valid_loader>>

\* How many labels of a dataset are the label l.
CountLabel(y, l) == Cardinality({i \in 1..Len(y) : y[i] = l})

\* The dataset d is the discriminator dataset of the source loader src: the N originals
\* labelled 0, then N samples the attack made of them labelled 1.
IsDiscriminatorDataset(d, src) ==
    LET N == Len(src.X) IN
    /\ Len(d.X) = 2 * N
    /\ Len(d.y) = 2 * N
    /\ \A i \in 1..N : d.X[i] = src.X[i] /\ d.y[i] = 0
    /\ SubSeq(d.X, N + 1, 2 * N) \in apply_attack([eps |-> 0], src)
    /\ \A i \in (N + 1)..(2 * N) : d.y[i] = 1
    /\ CountLabel(d.y, 0) = N
    /\ CountLabel(d.y, 1) = N

\* C11: for every source loader of N samples whose attack output has the shape of the
\* original features, the loader _generate_adversarial_data returns has exactly 2N
\* samples: the N originals, each labelled 0, and the N perturbed samples, each
\* labelled 1, so that half of the labels are 0 and half are 1.
C11_OriginalsZeroPerturbedOne ==
    \A k \in 1..Len(adv_loaders) : IsDiscriminatorDataset(adv_loaders[k], SourceLoaders[k])

\* Both loaders were generated, the train loader from a source of MaxSamples samples.
C11_Witness ==
    /\ Len(adv_loaders) = 2
    /\ Len(args.train_loader.X) = MaxSamples
    /\ Len(adv_loaders[1].X) = 2 * MaxSamples
    /\ CountLabel(adv_loaders[1].y, 1) = MaxSamples

\* The attack returned features of another shape than the originals: it was applied
\* more often than a loader was generated.
ShapeMismatch == calls.apply_attack > Len(adv_loaders)

\* No epoch was executed: no train step, no validation step, no scheduler step, no
\* early-stop observation, no entry in the metric log, nothing returned.
NoEpochExecuted ==
    /\ epoch = -1
    /\ calls.train_step = 0
    /\ calls.valid_step = 0
    /\ calls.scheduler_step = 0
    /\ calls.attack_scheduler_step = 0
    /\ calls.early_stop = 0
    /\ AllLengths(0)
    /\ train_metrics_epoch = <<>>
    /\ test_metrics_epoch = <<>>
    /\ returned = <<>>

\* In every state: every generated loader has twice the samples of its source (none was
\* built from features of another shape), at most the last application of the attack
\* built none, and then train_model has failed its assertion with no epoch executed.
C12_MismatchAborts ==
    /\ \A k \in 1..Len(adv_loaders) : Len(adv_loaders[k].X) = 2 * Len(SourceLoaders[k].X)
    /\ calls.apply_attack \in {Len(adv_loaders), Len(adv_loaders) + 1}
    /\ ShapeMismatch <=> pc = "assertion_error"
    /\ ShapeMismatch => NoEpochExecuted

\* C12: if the attack returns perturbed features whose shape differs from the original
\* features, for the train or for the validation loader, DiscTrainer.train_model ends
\* in the assertion failure: no adversarial dataset is built from the mismatching data,
\* no epoch is executed, and no step of train_model follows the failure (it is neither
\* caught nor retried).
C12_MismatchIsFatal == [](C12_MismatchAborts) /\ [][pc # "assertion_error"]_vars

\* The attack's output for the validation loader had another shape, after the train
\* loader was generated, in a run with epochs to go.
C12_Witness ==
    /\ pc = "assertion_error"
    /\ trainer.n_epochs > 0
    /\ calls.apply_attack = 2
    /\ Len(adv_loaders) = 1

\* ---------------------------------------------------------------------------
\* train_model: the order of the steps of an epoch
\* ---------------------------------------------------------------------------

\* the steps of an epoch in the order of the loop body, as positions of train_model
EpochSteps ==
    <<"train_step", "log_train", "valid_step", "log_test",
      "scheduler", "attack_scheduler", "early_stop">>

\* the place of a step in the loop body
StepIndex(step) == CHOOSE i \in 1..Len(EpochSteps) : EpochSteps[i] = step

\* How often the step must have run by now if the steps run in the order of EpochSteps,
\* once per epoch: in the epochs before this one, and in this one when train_model
\* stands behind it.
TimesRun(step) ==
    IF pc \in SeqRange(EpochSteps)
    THEN IF StepIndex(pc) > StepIndex(step) THEN epoch + 1 ELSE epoch
    ELSE epoch + 1

\* the attack the attack scheduler returned at its k-th step
RECURSIVE AttackAfter(_)
AttackAfter(k) == IF k = 0 THEN [eps |-> 0] ELSE attack_scheduler_step(AttackAfter(k - 1))

\* C14: in every epoch the steps happen in the order train step, log of the train
\* metrics, validation step, log of the test metrics, learning-rate scheduler step (if
\* configured), attack-scheduler step with the active attack replaced by the attack it
\* returns (DiscTrainer, if configured), early-stop observation; so when the loop has
\* ended, by budget or by early stop, each configured scheduler has been stepped as
\* often as epochs were run, the epoch of the early stop included.
C14_StepsInOrder ==
    /\ calls.train_step = TimesRun("train_step")
    /\ Started => Len(dict_logging["train"]["loss"]) = TimesRun("log_train")
    /\ calls.valid_step = TimesRun("valid_step")
    /\ Started => Len(dict_logging["test"]["loss"]) = TimesRun("log_test")
    /\ calls.scheduler_step = IF trainer.scheduler THEN TimesRun("scheduler") ELSE 0
    /\ calls.attack_scheduler_step =
           IF trainer.attack_scheduler THEN TimesRun("attack_scheduler") ELSE 0
    /\ attack = AttackAfter(calls.attack_scheduler_step)
    /\ calls.early_stop =
           IF StopperConfigured(trainer.early_stop_patience) THEN TimesRun("early_stop") ELSE 0
    /\ LoopLeft =>
           /\ trainer.scheduler => calls.scheduler_step = calls.train_step
           /\ trainer.attack_scheduler => calls.attack_scheduler_step = calls.train_step

\* A DiscTrainer with both schedulers was stopped early, after two epochs or more and
\* before its budget, each scheduler stepped in every epoch run.
C14_Witness ==
    /\ pc = "done"
    /\ trainer.kind = "DiscTrainer"
    /\ trainer.scheduler
    /\ trainer.attack_scheduler
    /\ calls.train_step >= 2
    /\ calls.train_step < trainer.n_epochs
    /\ calls.scheduler_step = calls.train_step
    /\ attack = AttackAfter(calls.train_step)

\* ---------------------------------------------------------------------------
\* DiscTrainer.train_model: the adversarial loaders during the loop
\* ---------------------------------------------------------------------------

\* train_model of a DiscTrainer has reached its loop
LoopReached ==
    /\ trainer.kind = "DiscTrainer"
    /\ pc \in {"loop", "return", "done", "unbound_local_error"} \cup SeqRange(EpochSteps)

\* In every state: the attack is applied at most twice, and never by a Trainer; no
\* epoch starts before both loaders are generated; from the loop on the attack has
\* been applied exactly twice, the two loaders are the ones made with the attack
\* train_model started with, whatever the active attack is by now, and every train and
\* validation step so far got the adversarial train and validation loader.
C15_LoadersOfTheLoop ==
    /\ calls.apply_attack <= 2
    /\ trainer.kind = "Trainer" => calls.apply_attack = 0 /\ adv_loaders = <<>>
    /\ trainer.kind = "DiscTrainer" /\ calls.apply_attack < 2 =>
           epoch = -1 /\ calls.train_step = 0 /\ calls.valid_step = 0
    /\ LoopReached =>
           /\ calls.apply_attack = 2
           /\ Len(adv_loaders) = 2
           /\ \A k \in 1..2 : IsDiscriminatorDataset(adv_loaders[k], SourceLoaders[k])
           /\ calls.train_step_loaders \subseteq {adv_loaders[1]}
           /\ calls.valid_step_loaders \subseteq {adv_loaders[2]}
           /\ calls.train_step > 0 => calls.train_step_loaders = {adv_loaders[1]}
           /\ calls.valid_step > 0 => calls.valid_step_loaders = {adv_loaders[2]}

\* No step taken from the loop on applies the attack or touches the two loaders.
C15_LoopKeepsLoaders ==
    LoopReached => adv_loaders' = adv_loaders /\ calls'.apply_attack = calls.apply_attack

\* C15: DiscTrainer.train_model generates the adversarial train loader and the
\* adversarial validation loader once each, before the first epoch; every epoch's
\* train and validation step uses these two loaders, and the attack scheduler replacing
\* the active attack never regenerates or changes them: the attack is applied exactly
\* twice in a call that reaches the loop, whatever the number of epochs.
C15_GeneratedOnceUsedEveryEpoch == [](C15_LoadersOfTheLoop) /\ [][C15_LoopKeepsLoaders]_vars

\* The whole budget of MaxEpochs epochs ran on the two loaders made before the loop,
\* the attack scheduler having replaced the attack in each of them.
C15_Witness ==
    /\ pc = "done"
    /\ trainer.kind = "DiscTrainer"
    /\ trainer.attack_scheduler
    /\ calls.train_step >= MaxEpochs
    /\ attack = AttackAfter(calls.train_step)
    /\ attack # [eps |-> 0]
    /\ calls.apply_attack = 2
    /\ calls.train_step_loaders = {adv_loaders[1]}
    /\ calls.valid_step_loaders = {adv_loaders[2]}

\* ---------------------------------------------------------------------------
\* initialize_with_params: what reaches the factories
\* ---------------------------------------------------------------------------

\* the optional mappings of the method that was called, in the order of its factory calls
ParamNamesOfCall == IF init_call.cls = "DiscTrainer" THEN DiscTrainerParamNames ELSE TrainerParamNames

\* the caller left the mapping out or passed None, an empty mapping or the string "None"
IsSentinel(v) == v \in {PyNone, PyStr("None"), EmptyTree}

\* The i-th factory call got a mapping, the empty one where the caller passed a sentinel.
FactoryGotMapping(i) ==
    /\ factory_calls[i].factory = FactoryOf[ParamNamesOfCall[i]]
    /\ IsDict(factory_calls[i].params)
    /\ IsSentinel(init_call.params[ParamNamesOfCall[i]]) => factory_calls[i].params = EmptyTree

\* C13: in both initialize_with_params every optional parameter mapping (model,
\* criterion, optimizer, scheduler, for DiscTrainer also attack and attack scheduler)
\* that is missing, None, empty or the string "None" is an empty mapping when it is
\* handed to its factory; no sentinel reaches a factory.
C13_NoSentinelReachesFactory ==
    factory_calls # <<>> =>
        /\ Len(factory_calls) = Len(ParamNamesOfCall)
        /\ \A i \in 1..Len(factory_calls) : FactoryGotMapping(i)

\* What the code does keep: the four mappings both methods normalise.
CommonMappingsNormalized ==
    factory_calls # <<>> => \A i \in 1..Len(TrainerParamNames) : FactoryGotMapping(i)

InitInitialize == InitializeInit /\ ESIdle /\ TrainIdle /\ OptIdle

NextInitialize ==
    \/ TrainerInitializeWithParams
    \/ DiscTrainerInitializeWithParams

SpecInitialize == InitInitialize /\ [][NextInitialize]_vars

InitOpt == OptInit /\ ESIdle /\ TrainIdle /\ InitializeIdle

NextOpt ==
    \/ Resolve
    \/ CollectDefaults
    \/ UpdateTrainerParams

SpecOpt == InitOpt /\ [][NextOpt]_vars

====
